---- MODULE Spec2Model ----
(***************************************************************************)
(* The job lifecycle of the OpenAI Deep Research MCP server.               *)
(*                                                                         *)
(* The repository holds two server programs that register the same three   *)
(* tools: dist/server.js (what package.json's "main", "bin" and "start"    *)
(* run) and src/server.ts (what "dev" runs and what "build" compiles).     *)
(* They differ, so the model has both: the variable build says which file  *)
(* the process was started from.                                           *)
(***************************************************************************)
EXTENDS Integers, Sequences, FiniteSets, TLC

VARIABLES
    build,             \* which server file runs: "dist" or "src"
    apiKey,            \* process.env.OPENAI_API_KEY is set
    now,               \* Date.now(), in milliseconds
    suspended,         \* the check_status handlers that await the engine's
                       \* answer, in the order they began
    heap,              \* the ResearchRequest objects, by allocation order
    researchRequests,  \* the Map: request id -> index of its object in heap
    last               \* the last tool invocation: its argument, the requests as
                       \* it found them, its engine calls and its response

vars == <<build, apiKey, suspended, now, heap, researchRequests, last>>

----------------------------------------------------------------------------
(* Bounds of the model *)

\* how many ResearchRequest objects a run allocates
MaxJobs == 2
\* how many times the clock advances between invocations
MaxTicks == 1

\* how many annotations the main content of an extracted document carries
MaxAnnotations == 3

\* how many check_status handlers await the engine at the same time
MaxHandlers == 2

\* the clock advances six minutes at a time
TickStep == 6 * 60 * 1000

----------------------------------------------------------------------------
(* Values *)

Builds == {"dist", "src"}

Has(r, f) == f \in DOMAIN r

\* obj.f = v on a JavaScript object
SetField(r, f, v) == [x \in DOMAIN r \cup {f} |-> IF x = f THEN v ELSE r[x]]

Models == {"o3-deep-research-2025-06-26", "o4-mini-deep-research-2025-06-26"}

\* Math.random().toString(36).substr(2, 9)
RandomSuffixes == {"k3j9x0q2m", "z81hd73ka"}

\* `req_${Date.now()}_${Math.random().toString(36).substr(2, 9)}`
RequestId(t, rnd) == <<"req_", t, "_", rnd>>

\* request ids a caller may pass that no create has returned
UnknownIds == {<<"req_", 0, "_", "nosuchreq">>}

----------------------------------------------------------------------------
(* The research engine: an external collaborator.  What it answers to a    *)
(* call is an input of the handler that makes the call.                    *)

\* the id of the n-th operation the engine starts
Ref(n) == <<"resp_", n>>

\* the statuses a response document carries: the two the handlers look for,
\* and one that stands for every other
EngineStatuses == {"in_progress", "completed", "failed"}

\* the message of an error thrown by an engine call
EngineErrors == {"Connection error."}

\* A value inside an engine document: an object is a record of the fields that
\* are defined, a string is a string, and an array is Arr of its elements.  A
\* string that stands where the handlers look for an array is Str of its
\* characters.  No value of a document is null, 0 or the empty string, so a
\* field that is present is truthy
Arr(elements) == [array |-> elements]

Str(characters) == [string |-> characters]

\* Array.isArray(v), v an object, an array or a Str
IsArray(v) == Has(v, "array")

\* typeof v === "string", v an object, an array or a Str
IsString(v) == Has(v, "string")

\* an output list whose last message holds one text block with one annotation
GoodOutput ==
    Arr(<< [type |-> "reasoning"],
           [type |-> "message",
            content |-> Arr(<< [type |-> "output_text", text |-> "pong",
                                annotations |->
                                    Arr(<< [title |-> "Src", url |-> "http://x"] >>)] >>)] >>)

EmptyOutput == Arr(<< >>)

\* the output lists of the response documents of this model
Outputs == {EmptyOutput, GoodOutput}

\* what an awaited engine call settles to: a value, or a thrown error
Resolved(v) == [ok |-> TRUE, value |-> v]

Rejected(m) == [ok |-> FALSE, message |-> m]

EngineFailures == {Rejected(m) : m \in EngineErrors}

\* client.responses.create({..., background: true}): the operation is queued.
\* Every stored request stands for one started operation
CreateReplies ==
    {Resolved([id |-> Ref(Len(heap) + 1), status |-> "queued",
               output |-> EmptyOutput])}
        \cup EngineFailures

\* client.responses.retrieve(ref): the response document of the operation.  An
\* unfinished operation has no output yet; a completed one has an output list,
\* or a document without one
RetrieveReplies(ref) ==
    {Resolved([id |-> ref, status |-> s, output |-> EmptyOutput]) :
        s \in EngineStatuses \ {"completed"}}
        \cup {Resolved([id |-> ref, status |-> "completed"])}
        \cup {Resolved([id |-> ref, status |-> "completed", output |-> o]) :
                 o \in Outputs}
        \cup EngineFailures

----------------------------------------------------------------------------
(* The documents of the extraction runs: what the engine may hand to the    *)
(* extraction of get_results.                                               *)

\* a string, and an object that is no array
SomeString == Str(<<"p", "o", "n", "g">>)

SomeObject == [note |-> "n/a"]

\* title and url, a snippet only, an empty title
Annotations ==
    {[title |-> "Src", url |-> "http://x"],
     [snippet |-> "quote"],
     [title |-> "", url |-> "http://z"]}

AnnotationLists == UNION {[1..n -> Annotations] : n \in 0..MaxAnnotations}

\* the first content item of the last message: with or without a text, with
\* or without an annotation list, or with annotations that are no list
MainContents ==
    {[type |-> "output_text"],
     [type |-> "output_text", annotations |-> Arr(<< [snippet |-> "quote"] >>)],
     [type |-> "output_text", text |-> "pong"],
     [type |-> "output_text", text |-> "pong", annotations |-> SomeObject]}
        \cup {[type |-> "output_text", text |-> "pong", annotations |-> Arr(a)] :
                 a \in AnnotationLists}

\* the main contents of the documents that hold more than the last message
\* and its first content item
FewMainContents ==
    {[type |-> "output_text"],
     [type |-> "output_text", text |-> "pong",
      annotations |-> Arr(<< [title |-> "Src", url |-> "http://x"] >>)]}

\* the content items after the first
LaterContents ==
    {<< >>,
     << [type |-> "output_text", text |-> "other",
         annotations |-> Arr(<< [title |-> "Other"] >>)] >>}

\* the output elements before the last: none, a reasoning step, a message
EarlierOutputs ==
    {<< >>,
     << [type |-> "reasoning"] >>,
     << [type |-> "message",
         content |-> Arr(<< [type |-> "output_text", text |-> "draft",
                             annotations |-> Arr(<< [title |-> "Draft"] >>)] >>)] >>}

\* the last element of the output list: without content, with a content that
\* is no list, with an empty list, with a list of items
LastMessages(mains, laters) ==
    {[type |-> "message"]}
        \cup {[type |-> "message", content |-> c] :
                 c \in {SomeString, SomeObject, Arr(<< >>)}}
        \cup {[type |-> "message", content |-> Arr(<<b>> \o later)] :
                 b \in mains, later \in laters}

\* the output of a document: no list, an empty list, a last message with
\* every main content, or a few of them among other elements and items
ExtractOutputs ==
    {SomeString, SomeObject, Arr(<< >>)}
        \cup {Arr(<<m>>) : m \in LastMessages(MainContents, {<< >>})}
        \cup {Arr(earlier \o <<m>>) :
                 earlier \in EarlierOutputs,
                 m \in LastMessages(FewMainContents, LaterContents)}

\* the completed documents of operation ref
ExtractDocuments(ref) ==
    {[id |-> ref, status |-> "completed"]}
        \cup {[id |-> ref, status |-> "completed", output |-> o] :
                 o \in ExtractOutputs}

----------------------------------------------------------------------------
(* Tool inputs, after the schema's defaults *)

Queries == {"What is 2+2?"}

SystemMessages == {"", "Be brief."}

CreateInputs ==
    [query : Queries, model : Models, include_code_interpreter : BOOLEAN]
        \cup [query : Queries, system_message : SystemMessages, model : Models,
              include_code_interpreter : BOOLEAN]

\* the create call of the lifecycle runs: every option given, none a default
LifecycleInputs ==
    {[query |-> "What is 2+2?", system_message |-> "Be brief.",
      model |-> "o4-mini-deep-research-2025-06-26",
      include_code_interpreter |-> TRUE]}

----------------------------------------------------------------------------
(* Objects.  A property that was never set, or is undefined, is not a      *)
(* field of the record; the response of a tool is the object its handler   *)
(* serialises, and JSON.stringify leaves such properties out as well.      *)

\* the property name: r.f of an object literal, when r.f is defined
Entry(r, f, name) == IF Has(r, f) THEN name :> r[f] ELSE << >>

\* the report and the citations of a get_results response, if it has results
ResultsOf(response) ==
    IF Has(response, "results")
        THEN <<response.results.report, response.results.citations>>
        ELSE << >>

\* what a get_results call follows: the results of the invocation before it,
\* when that was a get_results call with the same argument that found its
\* request completed
Follows(tool, arg) ==
    IF tool = "get_results" /\ last.tool = "get_results" /\ last.arg = arg
          /\ last.response.status \in {"completed", "error"}
        THEN <<ResultsOf(last.response)>> ELSE << >>

\* what a handler leaves behind: its name and argument, the requests as they
\* were when it was called, its engine calls, the engine's answer, its
\* response, and what it follows
Invocation(tool, arg, calls, reply, response) ==
    [tool |-> tool, arg |-> arg, heap |-> heap,
     researchRequests |-> researchRequests,
     calls |-> calls, reply |-> reply, response |-> response,
     follows |-> Follows(tool, arg)]

\* what the engine answered: the id and status of the document, or a throw
Answer(reply) ==
    IF reply.ok THEN <<reply.value.id, reply.value.status>> ELSE <<"threw">>

NoReply == << >>

----------------------------------------------------------------------------
(* getOpenAIClient *)

MissingKeyMessage == "OPENAI_API_KEY environment variable is required"

\* TRUE when getOpenAIClient throws
GetOpenAIClientThrows == ~apiKey

----------------------------------------------------------------------------
(* openai_deep_research_create *)

\* (mutant) the user message is pushed first
InputMessagesQueryFirst(inputs) ==
    << [role |-> "user",
        content |-> << [type |-> "input_text", text |-> inputs.query] >>] >>
    \o (IF Has(inputs, "system_message") /\ inputs.system_message # ""
           THEN << [role |-> "developer",
                    content |-> << [type |-> "input_text",
                                    text |-> inputs.system_message] >>] >>
           ELSE << >>)

\* the input messages: the developer message, if any, then the user message
InputMessages(inputs) ==
    (IF Has(inputs, "system_message") /\ inputs.system_message # ""
        THEN << [role |-> "developer",
                 content |-> << [type |-> "input_text",
                                 text |-> inputs.system_message] >>] >>
        ELSE << >>)
    \o << [role |-> "user",
           content |-> << [type |-> "input_text", text |-> inputs.query] >>] >>

\* the tools list
ToolsList(inputs) ==
    << [type |-> "web_search_preview"] >>
    \o (IF inputs.include_code_interpreter
           THEN << [type |-> "code_interpreter"] >>
           ELSE << >>)

\* the argument of client.responses.create
CreateCall(inputs) ==
    [fn |-> "responses.create",
     model |-> inputs.model,
     input |-> InputMessages(inputs),
     reasoning |-> [summary |-> "auto"],
     tools |-> ToolsList(inputs),
     background |-> TRUE]

\* the catch block of the create handler
CreateFailure(message) ==
    [error |-> <<"Failed to create research request: ", message>>,
     status |-> "failed"]

CreateSuccess(requestId) ==
    [request_id |-> requestId,
     status |-> "pending",
     message |-> "Research request created successfully"]

\* (mutant) the local id is stored where the engine's id belongs
NewRequestDistLocalRef(requestId, inputs, response, t) ==
    [id |-> requestId, query |-> inputs.query, model |-> inputs.model,
     status |-> "pending", openaiResponseId |-> requestId, createdAt |-> t]
        @@ Entry(inputs, "system_message", "systemMessage")

\* the object dist/server.js stores
NewRequestDist(requestId, inputs, response, t) ==
    [id |-> requestId, query |-> inputs.query, model |-> inputs.model,
     status |-> "pending", openaiResponseId |-> response.id, createdAt |-> t]
        @@ Entry(inputs, "system_message", "systemMessage")

\* the object src/server.ts stores
NewRequestSrc(requestId, inputs, response, t) ==
    [id |-> requestId, query |-> inputs.query, model |-> inputs.model,
     status |-> "pending", response |-> response, createdAt |-> t]
        @@ Entry(inputs, "system_message", "systemMessage")

NewRequest(requestId, inputs, response, t) ==
    IF build = "dist" THEN NewRequestDist(requestId, inputs, response, t)
                      ELSE NewRequestSrc(requestId, inputs, response, t)

\* (mutant) the Map is started afresh with the new request
MapSetAfresh(requestId) == requestId :> Len(heap) + 1

\* researchRequests.set(requestId, request), request a fresh object
MapSet(requestId) ==
    [k \in DOMAIN researchRequests \cup {requestId} |->
        IF k = requestId THEN Len(heap) + 1 ELSE researchRequests[k]]

\* the handler throws in getOpenAIClient: nothing else happens
CreateNoClient(inputs) ==
    /\ GetOpenAIClientThrows
    /\ last' = Invocation("create", inputs, << >>, NoReply,
                          CreateFailure(MissingKeyMessage))
    /\ UNCHANGED <<build, apiKey, suspended, now, heap, researchRequests>>

\* (mutant) the request is stored before the engine is called
CreateEngineErrorAfterStore(inputs, reply) ==
    /\ ~GetOpenAIClientThrows
    /\ ~reply.ok
    /\ Len(heap) < MaxJobs
    /\ heap' = Append(heap, NewRequest(RequestId(now, "k3j9x0q2m"), inputs,
                                       [id |-> ""], now))
    /\ researchRequests' = MapSet(RequestId(now, "k3j9x0q2m"))
    /\ last' = Invocation("create", inputs, <<CreateCall(inputs)>>, Answer(reply),
                          CreateFailure(reply.message))
    /\ UNCHANGED <<build, apiKey, suspended, now>>

\* the awaited client.responses.create throws
CreateEngineError(inputs, reply) ==
    /\ ~GetOpenAIClientThrows
    /\ ~reply.ok
    /\ last' = Invocation("create", inputs, <<CreateCall(inputs)>>, Answer(reply),
                          CreateFailure(reply.message))
    /\ UNCHANGED <<build, apiKey, suspended, now, heap, researchRequests>>

\* the engine starts the operation: the request is stored
CreateStored(inputs, rnd, reply) ==
    /\ ~GetOpenAIClientThrows
    /\ reply.ok
    /\ Len(heap) < MaxJobs
    /\ heap' = Append(heap, NewRequest(RequestId(now, rnd), inputs, reply.value, now))
    /\ researchRequests' = MapSet(RequestId(now, rnd))
    /\ last' = Invocation("create", inputs, <<CreateCall(inputs)>>, Answer(reply),
                          CreateSuccess(RequestId(now, rnd)))
    /\ UNCHANGED <<build, apiKey, suspended, now>>

Create ==
    \/ \E inputs \in LifecycleInputs : CreateNoClient(inputs)
    \/ \E inputs \in LifecycleInputs :
          \E reply \in CreateReplies : CreateEngineError(inputs, reply)
    \/ \E inputs \in LifecycleInputs :
          \E reply \in CreateReplies, rnd \in RandomSuffixes :
              CreateStored(inputs, rnd, reply)

----------------------------------------------------------------------------
(* openai_deep_research_check_status *)

\* researchRequests.get(request_id), for an id the Map holds
Lookup(request_id) == heap[researchRequests[request_id]]

\* (mutant) the status is kept in one place for all requests
StoreSharedStatus(i, request) ==
    [k \in DOMAIN heap |->
        IF k = i THEN request ELSE SetField(heap[k], "status", request.status)]

\* the object at heap index i becomes request
Store(i, request) == [heap EXCEPT ![i] = request]

\* (mutant) an unknown id is reported like a failure of the handler
NotFoundAsError(request_id) ==
    [error |-> <<"Request ID ", request_id, " not found">>, status |-> "error"]

NotFound(request_id) ==
    [error |-> <<"Request ID ", request_id, " not found">>,
     status |-> "not_found"]

RetrieveCall(ref) == [fn |-> "responses.retrieve", id |-> ref]

\* Math.round(x / 1000 / 60), x in milliseconds
RoundMinutes(ms) == (ms + 30 * 1000) \div (60 * 1000)

\* the status document
StatusDocument(request, t) ==
    [request_id |-> request.id,
     status |-> request.status,
     query |-> request.query,
     model |-> request.model,
     created_at |-> <<"ISO", request.createdAt>>,
     elapsed_minutes |-> RoundMinutes(t - request.createdAt)]

\* (mutant) the engine is asked whatever the status
PollsAnyStatus(request) ==
    /\ Has(request, "openaiResponseId")
    /\ request.openaiResponseId # ""

\* dist/server.js asks the engine only for a pending request that has an id
Polls(request) ==
    /\ Has(request, "openaiResponseId")
    /\ request.openaiResponseId # ""
    /\ request.status = "pending"

\* (mutant) the engine's status is copied to the request
ReconcileCopiesStatus(request, reply) ==
    IF ~reply.ok THEN request
    ELSE IF reply.value.status = "completed"
        THEN SetField(SetField(request, "status", "completed"),
                      "response", reply.value)
    ELSE SetField(request, "status", reply.value.status)

\* (mutant) a query that throws marks the request failed
ReconcileFailsOnThrow(request, reply) ==
    IF ~reply.ok \/ reply.value.status = "failed"
        THEN SetField(SetField(request, "status", "failed"),
                      "error", "Research request failed")
    ELSE IF reply.value.status = "completed"
        THEN SetField(SetField(request, "status", "completed"),
                      "response", reply.value)
    ELSE request

\* (mutant) a query that throws is recorded as status error
ReconcileErrorOnThrow(request, reply) ==
    IF ~reply.ok THEN SetField(request, "status", "error")
    ELSE IF reply.value.status = "completed"
        THEN SetField(SetField(request, "status", "completed"),
                      "response", reply.value)
    ELSE IF reply.value.status = "failed"
        THEN SetField(SetField(request, "status", "failed"),
                      "error", "Research request failed")
    ELSE request

\* (mutant) an operation the engine gave up counts as failed
ReconcileFailsOnGivenUp(request, reply) ==
    IF ~reply.ok THEN request
    ELSE IF reply.value.status = "completed"
        THEN SetField(SetField(request, "status", "completed"),
                      "response", reply.value)
    ELSE IF reply.value.status \in {"failed", "cancelled", "incomplete"}
        THEN SetField(SetField(request, "status", "failed"),
                      "error", "Research request failed")
    ELSE request

\* (mutant) a request that completes is stamped with the time of completion
ReconcileRestamps(request, reply) ==
    IF ~reply.ok THEN request
    ELSE IF reply.value.status = "completed"
        THEN SetField(SetField(SetField(request, "status", "completed"),
                               "response", reply.value),
                      "createdAt", now)
    ELSE IF reply.value.status = "failed"
        THEN SetField(SetField(request, "status", "failed"),
                      "error", "Research request failed")
    ELSE request

\* (mutant) any other status of the engine is written as pending
ReconcilePendingOnOther(request, reply) ==
    IF ~reply.ok THEN request
    ELSE IF reply.value.status = "completed"
        THEN SetField(SetField(request, "status", "completed"),
                      "response", reply.value)
    ELSE IF reply.value.status = "failed"
        THEN SetField(SetField(request, "status", "failed"),
                      "error", "Research request failed")
    ELSE SetField(request, "status", "pending")

\* the try block of dist/server.js: what the engine's answer does to the request
Reconcile(request, reply) ==
    IF ~reply.ok THEN request
    ELSE IF reply.value.status = "completed"
        THEN SetField(SetField(request, "status", "completed"),
                      "response", reply.value)
    ELSE IF reply.value.status = "failed"
        THEN SetField(SetField(request, "status", "failed"),
                      "error", "Research request failed")
    ELSE request

\* src/server.ts: more than five minutes after creation a pending request is
\* taken to be completed
ElapsedLimit == 5

Simulate(request, t) ==
    IF (t - request.createdAt) > ElapsedLimit * 60 * 1000 /\ request.status = "pending"
        THEN SetField(request, "status", "completed")
        ELSE request

\* what the inner try settles to: getOpenAIClient throws, or the engine answers
Settled(reply) ==
    IF GetOpenAIClientThrows THEN Rejected(MissingKeyMessage) ELSE reply

\* (mutant) the engine is asked a second time
CallsMadeTwice(call) == IF GetOpenAIClientThrows THEN << >> ELSE <<call, call>>

CallsMade(call) == IF GetOpenAIClientThrows THEN << >> ELSE <<call>>

\* no request under that id (both files)
CheckStatusNotFound(request_id) ==
    /\ request_id \notin DOMAIN researchRequests
    /\ last' = Invocation("check_status", request_id, << >>, NoReply,
                          NotFound(request_id))
    /\ UNCHANGED <<build, apiKey, suspended, now, heap, researchRequests>>

\* dist/server.js, the request is not pending: the engine is not asked
CheckStatusSettled(request_id) ==
    /\ build = "dist"
    /\ request_id \in DOMAIN researchRequests
    /\ ~Polls(Lookup(request_id))
    /\ last' = Invocation("check_status", request_id, << >>, NoReply,
                          StatusDocument(Lookup(request_id), now))
    /\ UNCHANGED <<build, apiKey, suspended, now, heap, researchRequests>>

\* dist/server.js, the request is pending: the engine is asked
CheckStatusPoll(request_id, reply) ==
    /\ build = "dist"
    /\ request_id \in DOMAIN researchRequests
    /\ Polls(Lookup(request_id))
    /\ heap' = Store(researchRequests[request_id],
                     Reconcile(Lookup(request_id), Settled(reply)))
    /\ last' = Invocation("check_status", request_id,
                          CallsMade(RetrieveCall(Lookup(request_id).openaiResponseId)),
                          Answer(Settled(reply)),
                          StatusDocument(Reconcile(Lookup(request_id), Settled(reply)),
                                         now))
    /\ UNCHANGED <<build, apiKey, suspended, now, researchRequests>>

\* src/server.ts: the elapsed time decides
CheckStatusSrc(request_id) ==
    /\ build = "src"
    /\ request_id \in DOMAIN researchRequests
    /\ heap' = Store(researchRequests[request_id], Simulate(Lookup(request_id), now))
    /\ last' = Invocation("check_status", request_id, << >>, NoReply,
                          StatusDocument(Simulate(Lookup(request_id), now), now))
    /\ UNCHANGED <<build, apiKey, suspended, now, researchRequests>>

\* what the engine may answer when asked about the request under request_id
Answers(request_id) ==
    IF request_id \in DOMAIN researchRequests
          /\ Has(Lookup(request_id), "openaiResponseId")
        THEN RetrieveReplies(Lookup(request_id).openaiResponseId)
        ELSE {}

\* the ids a caller may pass
CallerIds == DOMAIN researchRequests \cup UnknownIds

CheckStatus ==
    \/ \E request_id \in CallerIds : CheckStatusNotFound(request_id)
    \/ \E request_id \in CallerIds : CheckStatusSettled(request_id)
    \/ \E request_id \in CallerIds : CheckStatusSrc(request_id)
    \/ \E request_id \in CallerIds :
          \E reply \in Answers(request_id) : CheckStatusPoll(request_id, reply)

----------------------------------------------------------------------------
(* openai_deep_research_get_results *)

\* (mutant) a request that is not ready is reported with status error
NotCompletedAsError(request_id, status) ==
    [error |-> <<"Request ", request_id, " is not completed. Status: ", status>>,
     status |-> "error"]

NotCompleted(request_id, status) ==
    [error |-> <<"Request ", request_id, " is not completed. Status: ", status>>,
     status |-> status]

RetrieveFailure(message) ==
    [error |-> <<"Failed to retrieve results: ", message>>,
     status |-> "error"]

NoResults == [error |-> "No results available", status |-> "error"]

\* annotation.title || "Unknown"
TitleOf(annotation) ==
    IF Has(annotation, "title") /\ annotation.title # ""
        THEN annotation.title ELSE "Unknown"

\* (mutant) the citations are numbered by the index of the annotation
CitationsFromZero(mainContent) ==
    IF Has(mainContent, "annotations")
        THEN [i \in 1..Len(mainContent.annotations.array) |->
                 [id |-> i - 1, title |-> TitleOf(mainContent.annotations.array[i])]
                     @@ Entry(mainContent.annotations.array[i], "url", "url")
                     @@ Entry(mainContent.annotations.array[i], "snippet", "snippet")]
        ELSE << >>

\* the forEach over mainContent.annotations
Citations(mainContent) ==
    IF Has(mainContent, "annotations")
        THEN [i \in 1..Len(mainContent.annotations.array) |->
                 [id |-> i, title |-> TitleOf(mainContent.annotations.array[i])]
                     @@ Entry(mainContent.annotations.array[i], "url", "url")
                     @@ Entry(mainContent.annotations.array[i], "snippet", "snippet")]
        ELSE << >>

\* mainContent.text || String(mainContent)
ReportText(mainContent) ==
    IF Has(mainContent, "text") /\ mainContent.text # "" THEN mainContent.text
    ELSE IF IsString(mainContent) THEN mainContent
    ELSE "[object Object]"

\* (mutant) the error leaves the handler
GetResultsFailureEscapes(message) == [threw |-> message]

\* the catch block of the get_results handler
GetResultsFailure(message) ==
    [error |-> <<"Failed to get results: ", message>>, status |-> "error"]

\* mainContent.annotations.forEach(...) throws a TypeError: annotations is
\* neither undefined nor an array
ForEachThrows(mainContent) ==
    /\ Has(mainContent, "annotations")
    /\ ~IsArray(mainContent.annotations)

ForEachMessage == "mainContent.annotations.forEach is not a function"

ResultsDocument(request, mainContent) ==
    [request_id |-> request.id,
     status |-> "completed",
     query |-> request.query,
     model |-> request.model,
     results |-> [report |-> ReportText(mainContent),
                  citations |-> Citations(mainContent),
                  citation_count |-> Len(Citations(mainContent))]]

\* from the main content to the end of the handler: the document, or the
\* catch block
Normalized(request, mainContent) ==
    IF ForEachThrows(mainContent) THEN GetResultsFailure(ForEachMessage)
                                  ELSE ResultsDocument(request, mainContent)

\* (mutant) the first element of the output list is taken
HeadOf(output) == output.array[1]

\* output[output.length - 1]
LastOf(output) == output.array[Len(output.array)]

\* dist/server.js: the guards on the way to the main content, then the document
ExtractDist(request, response) ==
    IF ~Has(response, "output") \/ ~IsArray(response.output)
          \/ Len(response.output.array) = 0
        THEN [error |-> "No output available in response",
              status |-> "error",
              debug |-> [hasResponse |-> TRUE,
                         hasOutput |-> Has(response, "output"),
                         outputType |->
                             IF ~Has(response, "output") THEN "undefined"
                             ELSE IF IsString(response.output) THEN "string"
                             ELSE "object",
                         outputLength |->
                             IF Has(response, "output") /\ IsArray(response.output)
                                 THEN <<Len(response.output.array)>>
                                 ELSE <<"not array">>]]
    ELSE IF ~Has(LastOf(response.output), "content")
               \/ ~IsArray(LastOf(response.output).content)
        THEN [error |-> "Unable to extract content from last message",
              status |-> "error",
              debug |-> [lastMessageKeys |-> DOMAIN LastOf(response.output),
                         hasContent |-> Has(LastOf(response.output), "content")]]
    ELSE IF Len(LastOf(response.output).content.array) = 0
        THEN [error |-> "No content in last message", status |-> "error"]
    ELSE Normalized(request, LastOf(response.output).content.array[1])

\* v?.[0], v an array, a Str or an object without a property "0": the element,
\* or nothing for undefined
FirstOf(v) ==
    IF IsArray(v) /\ Len(v.array) > 0 THEN <<v.array[1]>>
    ELSE IF IsString(v) /\ Len(v.string) > 0 THEN <<Str(<<v.string[1]>>)>>
    ELSE << >>

\* src/server.ts: response.output[response.output.length - 1]?.content?.[0].
\* The last character of a Str and the property "NaN" of an object have no
\* content
MainContentSrc(response) ==
    IF ~IsArray(response.output) \/ Len(response.output.array) = 0
        THEN << >>
    ELSE IF ~Has(LastOf(response.output), "content")
        THEN << >>
    ELSE FirstOf(LastOf(response.output).content)

ExtractSrc(request) ==
    IF ~Has(request, "response") \/ ~Has(request.response, "output")
        THEN NoResults
    ELSE IF MainContentSrc(request.response) = << >>
        THEN [error |-> "Unable to extract results from response",
                   status |-> "error"]
    ELSE Normalized(request, MainContentSrc(request.response)[1])

\* (mutant) the document is retrieved on every call
NeedsFetchAlways(request) ==
    /\ Has(request, "openaiResponseId")
    /\ request.openaiResponseId # ""

\* (mutant) a cached document with an empty output list is retrieved again
NeedsFetchWhenEmpty(request) ==
    /\ Has(request, "openaiResponseId")
    /\ request.openaiResponseId # ""
    /\ IF Has(request, "response") /\ Has(request.response, "output")
           THEN request.response.output = EmptyOutput
           ELSE TRUE

\* dist/server.js retrieves the document when none with an output is cached
NeedsFetch(request) ==
    /\ Has(request, "openaiResponseId")
    /\ request.openaiResponseId # ""
    /\ (~Has(request, "response") \/ ~Has(request.response, "output"))

\* (mutant) a retrieval that throws leaves its message on the request
FetchedRecordsError(request, reply) ==
    IF reply.ok THEN SetField(request, "response", reply.value)
                ELSE SetField(request, "error", reply.message)

\* (mutant) a retrieval that throws marks the request failed
FetchedFailsOnThrow(request, reply) ==
    IF reply.ok THEN SetField(request, "response", reply.value)
                ELSE SetField(request, "status", "failed")

\* the try block around the retrieval: the request afterwards
Fetched(request, reply) ==
    IF reply.ok THEN SetField(request, "response", reply.value) ELSE request

\* the response after the retrieval
FetchedResults(request, reply) ==
    IF reply.ok THEN ExtractDist(Fetched(request, reply), reply.value)
                ELSE RetrieveFailure(reply.message)

\* the response when nothing is retrieved
CachedResults(request) ==
    IF ~Has(request, "response") THEN NoResults
                                 ELSE ExtractDist(request, request.response)

\* no request under that id (both files)
GetResultsNotFound(request_id) ==
    /\ request_id \notin DOMAIN researchRequests
    /\ last' = Invocation("get_results", request_id, << >>, NoReply,
                          NotFound(request_id))
    /\ UNCHANGED <<build, apiKey, suspended, now, heap, researchRequests>>

\* the request is not completed (both files)
GetResultsNotCompleted(request_id) ==
    /\ request_id \in DOMAIN researchRequests
    /\ Lookup(request_id).status # "completed"
    /\ last' = Invocation("get_results", request_id, << >>, NoReply,
                          NotCompleted(request_id, Lookup(request_id).status))
    /\ UNCHANGED <<build, apiKey, suspended, now, heap, researchRequests>>

\* dist/server.js, a document with an output is cached
GetResultsCached(request_id) ==
    /\ build = "dist"
    /\ request_id \in DOMAIN researchRequests
    /\ Lookup(request_id).status = "completed"
    /\ ~NeedsFetch(Lookup(request_id))
    /\ last' = Invocation("get_results", request_id, << >>, NoReply,
                          CachedResults(Lookup(request_id)))
    /\ UNCHANGED <<build, apiKey, suspended, now, heap, researchRequests>>

\* dist/server.js, the document is retrieved first
GetResultsFetch(request_id, reply) ==
    /\ build = "dist"
    /\ request_id \in DOMAIN researchRequests
    /\ Lookup(request_id).status = "completed"
    /\ NeedsFetch(Lookup(request_id))
    /\ heap' = Store(researchRequests[request_id],
                     Fetched(Lookup(request_id), Settled(reply)))
    /\ last' = Invocation("get_results", request_id,
                          CallsMade(RetrieveCall(Lookup(request_id).openaiResponseId)),
                          Answer(Settled(reply)),
                          FetchedResults(Lookup(request_id), Settled(reply)))
    /\ UNCHANGED <<build, apiKey, suspended, now, researchRequests>>

\* src/server.ts: the stored response is all there is
GetResultsSrc(request_id) ==
    /\ build = "src"
    /\ request_id \in DOMAIN researchRequests
    /\ Lookup(request_id).status = "completed"
    /\ last' = Invocation("get_results", request_id, << >>, NoReply,
                          ExtractSrc(Lookup(request_id)))
    /\ UNCHANGED <<build, apiKey, suspended, now, heap, researchRequests>>

GetResults ==
    \/ \E request_id \in CallerIds : GetResultsNotFound(request_id)
    \/ \E request_id \in CallerIds : GetResultsNotCompleted(request_id)
    \/ \E request_id \in CallerIds : GetResultsCached(request_id)
    \/ \E request_id \in CallerIds : GetResultsSrc(request_id)
    \/ \E request_id \in CallerIds :
          \E reply \in Answers(request_id) : GetResultsFetch(request_id, reply)

----------------------------------------------------------------------------
(* Time passes between two tool invocations *)

\* (mutant) a poller completes the pending requests as time passes
TickPolls ==
    /\ now + TickStep <= MaxTicks * TickStep
    /\ now' = now + TickStep
    /\ heap' = [i \in DOMAIN heap |->
                   IF heap[i].status = "pending"
                       THEN SetField(heap[i], "status", "completed")
                       ELSE heap[i]]
    /\ UNCHANGED <<build, apiKey, suspended, researchRequests, last>>

Tick ==
    /\ now + TickStep <= MaxTicks * TickStep
    /\ now' = now + TickStep
    /\ UNCHANGED <<build, apiKey, suspended, heap, researchRequests, last>>

----------------------------------------------------------------------------

Init ==
    /\ build \in Builds
    /\ apiKey \in BOOLEAN
    /\ suspended = << >>
    /\ now = 0
    /\ heap = << >>
    /\ researchRequests = << >>
    /\ last = Invocation("none", << >>, << >>, NoReply, << >>)

Next ==
    \/ Create
    \/ CheckStatus
    \/ GetResults
    \/ Tick

Spec == Init /\ [][Next]_vars

----------------------------------------------------------------------------
(* The extraction runs: one request, and an engine that hands every         *)
(* document of ExtractDocuments to the handler that asks, or fails.  In     *)
(* src/server.ts the document get_results extracts from is the one create   *)
(* was answered with.                                                       *)

ExtractCreate ==
    /\ heap = << >>
    /\ \E inputs \in LifecycleInputs, d \in ExtractDocuments(Ref(1)) :
           CreateStored(inputs, "k3j9x0q2m", Resolved(d))

\* what the engine may answer when asked about request_id: a completed
\* document, an operation that runs or has failed, or an error
ExtractAnswers(request_id) ==
    IF request_id \in DOMAIN researchRequests
          /\ Has(Lookup(request_id), "openaiResponseId")
        THEN {Resolved(d) : d \in ExtractDocuments(Lookup(request_id).openaiResponseId)}
                 \cup {Resolved([id |-> Lookup(request_id).openaiResponseId,
                                 status |-> st, output |-> EmptyOutput]) :
                           st \in EngineStatuses \ {"completed"}}
                 \cup EngineFailures
        ELSE {}

NextExtract ==
    \/ ExtractCreate
    \/ \E inputs \in LifecycleInputs : CreateNoClient(inputs)
    \/ \E inputs \in LifecycleInputs :
          \E reply \in EngineFailures : CreateEngineError(inputs, reply)
    \/ \E request_id \in CallerIds : CheckStatusNotFound(request_id)
    \/ \E request_id \in CallerIds : GetResultsNotFound(request_id)
    \/ \E request_id \in DOMAIN researchRequests : CheckStatusSettled(request_id)
    \/ \E request_id \in DOMAIN researchRequests : GetResultsNotCompleted(request_id)
    \/ \E request_id \in DOMAIN researchRequests :
          \E reply \in ExtractAnswers(request_id) : CheckStatusPoll(request_id, reply)
    \/ \E request_id \in DOMAIN researchRequests : CheckStatusSrc(request_id)
    \/ \E request_id \in DOMAIN researchRequests : GetResultsCached(request_id)
    \/ \E request_id \in DOMAIN researchRequests : GetResultsSrc(request_id)
    \/ \E request_id \in DOMAIN researchRequests :
          \E reply \in ExtractAnswers(request_id) : GetResultsFetch(request_id, reply)
    \/ Tick

SpecExtract == Init /\ [][NextExtract]_vars

----------------------------------------------------------------------------
(* The polling runs: one request whose operation the engine completes with  *)
(* a well-formed output, a caller that keeps calling check_status, and      *)
(* queries that do not fail for ever.                                       *)

\* the first request of the process
LiveCreate ==
    /\ heap = << >>
    /\ Create

\* the document of a completed operation
CompletedDocument(ref) == [id |-> ref, status |-> "completed", output |-> GoodOutput]

\* until it completes, the operation is in progress, or the query throws
LiveAnswers(request_id) ==
    IF request_id \in DOMAIN researchRequests
          /\ Has(Lookup(request_id), "openaiResponseId")
        THEN {Resolved([id |-> Lookup(request_id).openaiResponseId,
                        status |-> "in_progress", output |-> EmptyOutput]),
              Resolved(CompletedDocument(Lookup(request_id).openaiResponseId))}
                 \cup EngineFailures
        ELSE {}

\* check_status asks the engine, and the operation has completed
PollCompleted ==
    \E request_id \in DOMAIN researchRequests :
        /\ Has(Lookup(request_id), "openaiResponseId")
        /\ CheckStatusPoll(request_id,
               Resolved(CompletedDocument(Lookup(request_id).openaiResponseId)))

\* check_status of src/server.ts
PollSrc == \E request_id \in DOMAIN researchRequests : CheckStatusSrc(request_id)

NextLive ==
    \/ LiveCreate
    \/ \E request_id \in CallerIds : CheckStatusNotFound(request_id)
    \/ \E request_id \in CallerIds : GetResultsNotFound(request_id)
    \/ \E request_id \in DOMAIN researchRequests :
          \E reply \in LiveAnswers(request_id) : CheckStatusPoll(request_id, reply)
    \/ \E request_id \in DOMAIN researchRequests : CheckStatusSettled(request_id)
    \/ PollSrc
    \/ \E request_id \in DOMAIN researchRequests : GetResultsNotCompleted(request_id)
    \/ \E request_id \in DOMAIN researchRequests : GetResultsCached(request_id)
    \/ \E request_id \in DOMAIN researchRequests : GetResultsSrc(request_id)
    \/ Tick

\* the caller keeps calling check_status and the engine's completed answer
\* arrives; the clock does not stop
SpecLive ==
    /\ Init
    /\ [][NextLive]_vars
    /\ WF_vars(PollCompleted)
    /\ WF_vars(PollSrc)
    /\ WF_vars(Tick)

----------------------------------------------------------------------------
(* The create runs: one create call with every shape of input the schema    *)
(* lets through, system_message absent, empty or a text.                    *)

CreateAny ==
    /\ heap = << >>
    /\ \/ \E inputs \in CreateInputs : CreateNoClient(inputs)
       \/ \E inputs \in CreateInputs :
             \E reply \in CreateReplies : CreateEngineError(inputs, reply)
       \/ \E inputs \in CreateInputs :
             \E reply \in CreateReplies, rnd \in RandomSuffixes :
                 CreateStored(inputs, rnd, reply)

NextCreate ==
    \/ CreateAny
    \/ \E request_id \in CallerIds : CheckStatusNotFound(request_id)
    \/ \E request_id \in CallerIds : GetResultsNotFound(request_id)
    \/ \E request_id \in CallerIds : GetResultsNotCompleted(request_id)
    \/ Tick

SpecCreate == Init /\ [][NextCreate]_vars

----------------------------------------------------------------------------
(* The interleaved runs.  A handler runs without interruption up to an      *)
(* await and from there to its end; while it awaits the engine other        *)
(* handlers run.  The check_status handler of dist/server.js awaits         *)
(* client.responses.retrieve after it has read the request and found it     *)
(* pending; what follows the await writes to that request object without    *)
(* reading its status again.  The check_status handler of src/server.ts     *)
(* has no await.  A request exists only in a process that has the API key,  *)
(* so getOpenAIClient does not throw in a handler that found one.           *)

\* the first part of the handler, up to the await: the request is found and
\* pending, and the engine is asked
BeginCheckStatus(request_id) ==
    /\ build = "dist"
    /\ request_id \in DOMAIN researchRequests
    /\ Polls(Lookup(request_id))
    /\ ~GetOpenAIClientThrows
    /\ Len(suspended) < MaxHandlers
    /\ suspended' = Append(suspended,
                           [request_id |-> request_id,
                            request |-> researchRequests[request_id],
                            call |-> RetrieveCall(Lookup(request_id).openaiResponseId)])
    /\ UNCHANGED <<build, apiKey, now, heap, researchRequests, last>>

\* the sequence without its h-th element
Without(handlers, h) ==
    [k \in 1..(Len(handlers) - 1) |-> IF k < h THEN handlers[k] ELSE handlers[k + 1]]

\* the second part of the h-th suspended handler: the engine's answer arrives,
\* is applied to the request object as it is now, and the handler responds
ResumeCheckStatus(h, reply) ==
    /\ h \in DOMAIN suspended
    /\ heap' = Store(suspended[h].request,
                     Reconcile(heap[suspended[h].request], reply))
    /\ suspended' = Without(suspended, h)
    /\ last' = Invocation("check_status", suspended[h].request_id,
                          <<suspended[h].call>>, Answer(reply),
                          StatusDocument(Reconcile(heap[suspended[h].request], reply),
                                         now))
    /\ UNCHANGED <<build, apiKey, now, researchRequests>>

\* what the engine may answer to the h-th suspended handler
Awaited(h) == RetrieveReplies(suspended[h].call.id)

NextRace ==
    \/ LiveCreate
    \/ \E request_id \in CallerIds : CheckStatusNotFound(request_id)
    \/ \E request_id \in DOMAIN researchRequests : BeginCheckStatus(request_id)
    \/ \E h \in DOMAIN suspended :
          \E reply \in Awaited(h) : ResumeCheckStatus(h, reply)
    \/ \E request_id \in DOMAIN researchRequests : CheckStatusSettled(request_id)
    \/ \E request_id \in DOMAIN researchRequests : CheckStatusSrc(request_id)
    \/ \E request_id \in CallerIds : GetResultsNotFound(request_id)
    \/ \E request_id \in DOMAIN researchRequests : GetResultsNotCompleted(request_id)
    \/ \E request_id \in DOMAIN researchRequests : GetResultsCached(request_id)
    \/ \E request_id \in DOMAIN researchRequests : GetResultsSrc(request_id)
    \/ Tick

SpecRace == Init /\ [][NextRace]_vars

----------------------------------------------------------------------------
(* The status runs: one request, and an engine that reports every status a  *)
(* response document can carry.                                             *)

\* the statuses of a response document other than completed and failed
OtherStatuses == {"queued", "in_progress", "cancelled", "incomplete"}

\* what the engine may answer when asked about request_id
StatusAnswers(request_id) ==
    IF request_id \in DOMAIN researchRequests
          /\ Has(Lookup(request_id), "openaiResponseId")
        THEN {Resolved([id |-> Lookup(request_id).openaiResponseId,
                        status |-> st, output |-> EmptyOutput]) :
                  st \in OtherStatuses \cup {"failed"}}
                 \cup {Resolved(CompletedDocument(Lookup(request_id).openaiResponseId))}
                 \cup EngineFailures
        ELSE {}

NextStatuses ==
    \/ LiveCreate
    \/ \E request_id \in CallerIds : CheckStatusNotFound(request_id)
    \/ \E request_id \in DOMAIN researchRequests :
          \E reply \in StatusAnswers(request_id) : CheckStatusPoll(request_id, reply)
    \/ \E request_id \in DOMAIN researchRequests : CheckStatusSettled(request_id)
    \/ \E request_id \in DOMAIN researchRequests : CheckStatusSrc(request_id)
    \/ \E request_id \in CallerIds : GetResultsNotFound(request_id)
    \/ \E request_id \in DOMAIN researchRequests : GetResultsNotCompleted(request_id)
    \/ \E request_id \in DOMAIN researchRequests : GetResultsCached(request_id)
    \/ \E request_id \in DOMAIN researchRequests : GetResultsSrc(request_id)
    \/ Tick

SpecStatuses == Init /\ [][NextStatuses]_vars

----------------------------------------------------------------------------
(* What the claims speak of *)

Terminal == {"completed", "failed"}

\* the request the last invocation found under its argument
Before == last.heap[last.researchRequests[last.arg]]

\* the last invocation was tool, called with the id of a stored request
Called(tool) ==
    /\ last.tool = tool
    /\ last.arg \in DOMAIN last.researchRequests

\* the last invocation changed no request and no entry of the Map
NothingWritten == heap = last.heap /\ researchRequests = last.researchRequests

\* the reference to the engine's operation that a request carries:
\* openaiResponseId in dist/server.js, the id of the stored create response in
\* src/server.ts
ExternalOperationRef(request) ==
    IF Has(request, "openaiResponseId") THEN request.openaiResponseId
                                        ELSE request.response.id

----------------------------------------------------------------------------
(* C1: under one-request-at-a-time processing, a request's status changes   *)
(* only from pending to completed or from pending to failed; the status of  *)
(* a completed or failed request is the same after every step.              *)
C1_StatusMonotonic ==
    [][\A i \in DOMAIN heap :
          /\ heap'[i].status \in {"pending", "completed", "failed"}
          /\ heap'[i].status # heap[i].status
                => heap[i].status = "pending" /\ heap'[i].status \in Terminal]_vars

\* a check_status call found its request failed
C1_Witness ==
    /\ Called("check_status")
    /\ Before.status = "failed"

(* C2: for every request in the Map, a cached response document is present  *)
(* if and only if the status is completed.                                  *)
C2_CachedIffCompleted ==
    \A id \in DOMAIN researchRequests :
        Has(Lookup(id), "response") <=> Lookup(id).status = "completed"

(* C3: a request becomes completed only in a check_status call for its id   *)
(* that asked the engine about the request's operation and was answered     *)
(* completed; elapsed time alone never completes it.                        *)
C3_CompletedOnlyByEngine ==
    \A i \in DOMAIN last.heap :
        last.heap[i].status # "completed" /\ heap[i].status = "completed"
            => /\ last.tool = "check_status"
               /\ last.arg = heap[i].id
               /\ last.calls = <<RetrieveCall(ExternalOperationRef(heap[i]))>>
               /\ last.reply = <<ExternalOperationRef(heap[i]), "completed">>

(* C4: check_status on a completed or failed request makes no engine call,  *)
(* leaves every request as it was and reports that same status.             *)
C4_TerminalCheckIsLocal ==
    Called("check_status") /\ Before.status \in Terminal
        => /\ last.calls = << >>
           /\ NothingWritten
           /\ ~Has(last.response, "error")
           /\ last.response.request_id = last.arg
           /\ last.response.status = Before.status

\* a check_status call found its request completed
C4_Witness ==
    /\ Called("check_status")
    /\ Before.status = "completed"

(* C5: when the engine query of check_status throws, the request stays      *)
(* pending with every field as it was, and the response reports pending     *)
(* and has no error field.                                                  *)
C5_QueryErrorSwallowed ==
    Called("check_status") /\ last.reply = <<"threw">>
        => /\ Before.status = "pending"
           /\ NothingWritten
           /\ last.response.status = "pending"
           /\ ~Has(last.response, "error")

\* a check_status call whose engine query threw, while another request exists
C5_Witness ==
    /\ Called("check_status")
    /\ last.reply = <<"threw">>
    /\ last.calls # << >>
    /\ Len(heap) > 1

(* C6: when create cannot start the operation (no credential, or the engine *)
(* call throws) the response has an error and status failed, and the Map    *)
(* and the requests are as before.                                          *)
C6_FailedCreateStoresNothing ==
    last.tool = "create" /\ last.reply \in {<< >>, <<"threw">>}
        => /\ Has(last.response, "error")
           /\ last.response.error[2] \in EngineErrors \cup {MissingKeyMessage}
           /\ last.response.status = "failed"
           /\ ~Has(last.response, "request_id")
           /\ NothingWritten

\* the engine call of a create threw while the Map held a request
C6_Witness ==
    /\ last.tool = "create"
    /\ last.reply = <<"threw">>
    /\ DOMAIN researchRequests # {}

(* C7: after a create whose engine call succeeds the Map holds, under the   *)
(* returned id, one request that did not exist before, pending and with the *)
(* reference the engine returned; nothing else changed; the response is     *)
(* that id, not empty, with status pending.                                 *)
C7_CreateStoresPending ==
    last.tool = "create" /\ last.reply \notin {<< >>, <<"threw">>}
        => /\ Has(last.response, "request_id")
           /\ ~Has(last.response, "error")
           /\ last.response.status = "pending"
           /\ Len(last.response.request_id) > 0
           /\ DOMAIN researchRequests =
                  DOMAIN last.researchRequests \cup {last.response.request_id}
           /\ \A k \in DOMAIN researchRequests \ {last.response.request_id} :
                  researchRequests[k] = last.researchRequests[k]
           /\ researchRequests[last.response.request_id] = Len(last.heap) + 1
           /\ Len(heap) = Len(last.heap) + 1
           /\ \A i \in DOMAIN last.heap : heap[i] = last.heap[i]
           /\ Lookup(last.response.request_id).id = last.response.request_id
           /\ Lookup(last.response.request_id).status = "pending"
           /\ ExternalOperationRef(Lookup(last.response.request_id)) = last.reply[1]

\* a second create succeeded
C7_Witness ==
    /\ last.tool = "create"
    /\ Has(last.response, "request_id")
    /\ Len(heap) = 2

(* C8: a successful create returns an id that no earlier create returned,   *)
(* so it never replaces an entry of the Map.                                *)
C8_FreshId ==
    last.tool = "create" /\ Has(last.response, "request_id")
        => last.response.request_id \notin DOMAIN last.researchRequests

(* C9: check_status or get_results with an id the Map does not hold returns *)
(* status not_found and an error, makes no engine call and writes nothing.  *)
C9_UnknownIdNotFound ==
    last.tool \in {"check_status", "get_results"}
          /\ last.arg \notin DOMAIN last.researchRequests
        => /\ last.response.status = "not_found"
           /\ Has(last.response, "error")
           /\ last.calls = << >>
           /\ NothingWritten

\* get_results was called with an unknown id while the Map held a request
C9_Witness ==
    /\ last.tool = "get_results"
    /\ last.arg \notin DOMAIN last.researchRequests
    /\ DOMAIN researchRequests # {}

(* C10: get_results on a pending or failed request returns an error and     *)
(* that status, no results, makes no engine call and writes nothing.        *)
C10_NotReady ==
    Called("get_results") /\ Before.status \in {"pending", "failed"}
        => /\ Has(last.response, "error")
           /\ last.response.status = Before.status
           /\ ~Has(last.response, "results")
           /\ last.calls = << >>
           /\ NothingWritten

\* get_results was called for a failed request
C10_Witness ==
    /\ Called("get_results")
    /\ Before.status = "failed"

(* C11: when get_results has to retrieve the document of a completed        *)
(* request and the retrieval throws, the response is an error with status   *)
(* error and no results, and the request (status and cached document) is    *)
(* as it was.                                                               *)
C11_RetrieveFailureReported ==
    Called("get_results") /\ Before.status = "completed" /\ last.reply = <<"threw">>
        => /\ Has(last.response, "error")
           /\ last.response.error[2] \in EngineErrors \cup {MissingKeyMessage}
           /\ last.response.status = "error"
           /\ ~Has(last.response, "results")
           /\ NothingWritten
           /\ Lookup(last.arg).status = "completed"

\* the retrieval of get_results threw for a request whose cached document has
\* no output
C11_Witness ==
    /\ Called("get_results")
    /\ last.reply = <<"threw">>
    /\ last.calls = <<RetrieveCall(Before.openaiResponseId)>>
    /\ Has(Before, "response")

(* C12: two get_results calls in succession on the same completed request,  *)
(* with no other invocation in between, return the same report and the same *)
(* citations, whatever the engine answers to a retrieval.                   *)
C12_SameResultsTwice ==
    Called("get_results") /\ last.follows # << >>
        => ResultsOf(last.response) = last.follows[1]

(* C12, amended: when the first of the two calls returned results, the      *)
(* second returns the same report and the same citations.                   *)
C12_SameResultsOnceReturned ==
    Called("get_results") /\ last.follows # << >> /\ last.follows[1] # << >>
        => ResultsOf(last.response) = last.follows[1]

\* a get_results call that directly follows one that returned results
C12_Witness ==
    /\ Called("get_results")
    /\ last.follows # << >>
    /\ last.follows[1] # << >>
    /\ Before.status = "completed"

(* C13: a request's cached document is written once: when a request has a  *)
(* cached document, no check_status or get_results invocation writes the    *)
(* cache again.                                                             *)
C13_CacheWrittenOnce ==
    last.tool \in {"check_status", "get_results"}
        => \A i \in DOMAIN last.heap :
               Has(last.heap[i], "response")
                   => /\ Has(heap[i], "response")
                      /\ heap[i].response = last.heap[i].response

(* C13, amended: when a request has a cached document with an output list,  *)
(* no check_status or get_results invocation writes the cache again, and    *)
(* none retrieves the document.                                             *)
C13_CacheWithOutputKept ==
    last.tool \in {"check_status", "get_results"}
        => /\ \A i \in DOMAIN last.heap :
                  Has(last.heap[i], "response")
                        /\ Has(last.heap[i].response, "output")
                      => /\ Has(heap[i], "response")
                         /\ heap[i].response = last.heap[i].response
           /\ Called(last.tool) /\ Has(Before, "response")
                     /\ Has(Before.response, "output")
                  => last.calls = << >>

\* get_results found a completed request whose document check_status cached
\* with its output
C13_Witness ==
    /\ build = "dist"
    /\ Called("get_results")
    /\ Before.status = "completed"
    /\ Has(Before, "response")
    /\ Has(Before.response, "output")
    /\ last.follows = << >>

----------------------------------------------------------------------------
(* What the claims about the extraction speak of *)

\* the last invocation was get_results for a completed request and had a
\* document to extract from: the one it retrieved, or else the cached one
Extracting ==
    /\ Called("get_results")
    /\ Before.status = "completed"
    /\ last.reply # <<"threw">>
    /\ Has(Lookup(last.arg), "response")

\* that document
Extracted == Lookup(last.arg).response

\* the output list is absent, no list or empty, or its last element has no
\* content list or an empty one
Malformed(document) ==
    \/ ~Has(document, "output")
    \/ ~IsArray(document.output)
    \/ Len(document.output.array) = 0
    \/ ~Has(document.output.array[Len(document.output.array)], "content")
    \/ ~IsArray(document.output.array[Len(document.output.array)].content)
    \/ Len(document.output.array[Len(document.output.array)].content.array) = 0

(* C14: get_results on a completed request whose document has an absent,    *)
(* non-list or empty output, or whose last output element has no content    *)
(* list or an empty one, returns an error with status error and no results, *)
(* and the request stays completed.                                         *)
C14_MalformedIsError ==
    Extracting /\ Malformed(Extracted)
        => /\ Has(last.response, "error")
           /\ last.response.status = "error"
           /\ ~Has(last.response, "results")
           /\ Lookup(last.arg).status = "completed"

\* the first content item of the last element of the output list of a
\* document that is not Malformed, and its annotations
Primary(document) ==
    document.output.array[Len(document.output.array)].content.array[1]

\* the document is not Malformed and the annotations of its main content, if
\* it has any, are a list
WellFormed(document) ==
    /\ ~Malformed(document)
    /\ Has(Primary(document), "annotations")
           => IsArray(Primary(document).annotations)

PrimaryAnnotations(document) ==
    IF Has(Primary(document), "annotations")
        THEN Primary(document).annotations.array ELSE << >>

(* C15: for a main content block with n annotations get_results returns n   *)
(* citations; the k-th has id k, the url and snippet of the k-th annotation *)
(* when it has them, and its title, or "Unknown" when it has none (an empty *)
(* title counts as none); citation_count is n, and 0 without an annotation  *)
(* list.                                                                    *)
C15_CitationsFollowAnnotations ==
    Extracting /\ WellFormed(Extracted)
        => /\ Has(last.response, "results")
           /\ Len(last.response.results.citations) = Len(PrimaryAnnotations(Extracted))
           /\ last.response.results.citation_count = Len(PrimaryAnnotations(Extracted))
           /\ \A k \in DOMAIN PrimaryAnnotations(Extracted) :
                  /\ last.response.results.citations[k].id = k
                  /\ last.response.results.citations[k].title =
                         IF Has(PrimaryAnnotations(Extracted)[k], "title")
                               /\ PrimaryAnnotations(Extracted)[k].title # ""
                             THEN PrimaryAnnotations(Extracted)[k].title
                             ELSE "Unknown"
                  /\ \A f \in {"url", "snippet"} :
                         /\ Has(last.response.results.citations[k], f)
                                <=> Has(PrimaryAnnotations(Extracted)[k], f)
                         /\ Has(PrimaryAnnotations(Extracted)[k], f)
                                => last.response.results.citations[k][f]
                                       = PrimaryAnnotations(Extracted)[k][f]

\* results for a block with three annotations: two with title and url, then
\* one with a snippet only
C15_Witness ==
    /\ Extracting
    /\ WellFormed(Extracted)
    /\ Has(last.response, "results")
    /\ Len(PrimaryAnnotations(Extracted)) = 3
    /\ PrimaryAnnotations(Extracted)[1] = [title |-> "Src", url |-> "http://x"]
    /\ PrimaryAnnotations(Extracted)[2] = [title |-> "Src", url |-> "http://x"]
    /\ PrimaryAnnotations(Extracted)[3] = [snippet |-> "quote"]

(* C16: on a document that is well-formed, the report is the text of the  *)
(* first content item of the last output element (or the rendering of that  *)
(* item when it has no text) and the citations are those of that item's     *)
(* annotations, whatever the earlier elements and the later items hold.     *)
C16_LastMessageFirstContent ==
    Extracting /\ WellFormed(Extracted)
        => /\ Has(last.response, "results")
           /\ last.response.results.report =
                  IF Has(Primary(Extracted), "text") THEN Primary(Extracted).text
                                                     ELSE "[object Object]"
           /\ Len(last.response.results.citations) = Len(PrimaryAnnotations(Extracted))
           /\ \A k \in DOMAIN PrimaryAnnotations(Extracted) :
                  last.response.results.citations[k].title
                      \in {"Unknown", "Src"}

\* results from a document with an earlier message and a later content item
C16_Witness ==
    /\ Extracting
    /\ WellFormed(Extracted)
    /\ Has(last.response, "results")
    /\ Len(Extracted.output.array) > 1
    /\ Has(Extracted.output.array[1], "content")
    /\ Len(Extracted.output.array[Len(Extracted.output.array)].content.array) > 1

\* the caller of check_status was told that its request is completed
ReceivedCompleted ==
    /\ Called("check_status")
    /\ last.response.status = "completed"

(* C17: when the operation of a request completes with a well-formed output *)
(* and the queries do not fail for ever, a caller that keeps calling        *)
(* check_status is eventually told completed, and a get_results call after  *)
(* that returns results with a report and no error.                         *)
C17_PollingEndsInResults ==
    /\ (\E i \in DOMAIN heap : heap[i].status = "pending") ~> ReceivedCompleted
    /\ [](Called("get_results") /\ Before.status = "completed"
            => /\ Has(last.response, "results")
               /\ Has(last.response.results, "report")
               /\ ~Has(last.response, "error"))

(* C18: every invocation of create, check_status or get_results returns a   *)
(* response document with a status, and no error leaves the handler; a      *)
(* get_results response has either an error or results, never both and      *)
(* never neither, and a create response either an error or a request id.    *)
C18_StructuredResponses ==
    last.tool \in {"create", "check_status", "get_results"}
        => /\ Has(last.response, "status")
           /\ ~Has(last.response, "threw")
           /\ last.tool = "get_results"
                  => (Has(last.response, "error") <=> ~Has(last.response, "results"))
           /\ last.tool = "create"
                  => (Has(last.response, "error") <=> ~Has(last.response, "request_id"))

\* the body of the get_results handler threw: the annotations of the main
\* content are no list
C18_Witness ==
    /\ Extracting
    /\ ~Malformed(Extracted)
    /\ ForEachThrows(Primary(Extracted))
    /\ Has(last.response, "error")

(* C19: no invocation removes an id from the Map, and check_status or       *)
(* get_results called with an id that a create has returned never answers   *)
(* not_found.                                                               *)
C19_NeverRemoved ==
    last.tool \in {"create", "check_status", "get_results"}
        => /\ DOMAIN last.researchRequests \subseteq DOMAIN researchRequests
           /\ last.tool # "create" /\ last.arg \in DOMAIN last.researchRequests
                  => last.response.status # "not_found"

\* the first request is looked up after a second one was created and the
\* clock has advanced
C19_Witness ==
    /\ Called("get_results")
    /\ Len(heap) = 2
    /\ last.researchRequests[last.arg] = 1
    /\ now > Before.createdAt
    /\ last.response.status # "not_found"

(* C20: check_status called with an id that a create has returned answers   *)
(* with that request_id and with status pending, completed or failed, and   *)
(* without an error.                                                        *)
C20_StatusOfKnownId ==
    Called("check_status")
        => /\ Has(last.response, "request_id")
           /\ last.response.request_id = last.arg
           /\ last.response.status \in {"pending", "completed", "failed"}
           /\ ~Has(last.response, "error")

\* check_status found its request pending and the engine answered failed
C20_Witness ==
    /\ Called("check_status")
    /\ Before.status = "pending"
    /\ last.response.status = "failed"

----------------------------------------------------------------------------
\* the caller gave guidance: a system_message that is a text
GaveGuidance(inputs) ==
    Has(inputs, "system_message") /\ inputs.system_message # ""

\* the messages of a create call that are steering messages
Steering(call) == {i \in DOMAIN call.input : call.input[i].role = "developer"}

(* C21: the message sequence create sends to the engine ends with the user  *)
(* query message, and holds a steering message, before the query message,   *)
(* exactly when the caller gave guidance.                                   *)
C21_MessageOrder ==
    last.tool = "create" /\ last.calls # << >>
        => LET call  == last.calls[1]
               count == Len(call.input)
           IN  /\ count >= 1
               /\ call.input[count] =
                      [role |-> "user",
                       content |-> << [type |-> "input_text",
                                       text |-> last.arg.query] >>]
               /\ Steering(call) # {} <=> GaveGuidance(last.arg)
               /\ \A i \in Steering(call) :
                      /\ i < count
                      /\ call.input[i].content =
                             << [type |-> "input_text",
                                 text |-> last.arg.system_message] >>
               /\ count = IF GaveGuidance(last.arg) THEN 2 ELSE 1

\* a create call with guidance reached the engine
C21_Witness ==
    /\ last.tool = "create"
    /\ last.calls # << >>
    /\ GaveGuidance(last.arg)
    /\ Len(last.calls[1].input) = 2

----------------------------------------------------------------------------
\* the engine's answer carries the terminal status, and for completed the
\* document, that the request already holds
AlreadyApplied(request, reply) ==
    /\ reply.ok
    /\ reply.value.status \in Terminal
    /\ request.status = reply.value.status
    /\ reply.value.status = "completed" =>
           Has(request, "response") /\ request.response = reply.value

(* C22: when two check_status handlers on one pending request interleave,   *)
(* both suspended before either answer is applied, applying to the request  *)
(* an answer with the terminal status and document it already holds leaves  *)
(* the request as it was, and no step takes a request from completed or     *)
(* failed back to pending.                                                  *)
C22_RaceIdempotent ==
    [][/\ \A h \in DOMAIN suspended :
             \A reply \in Awaited(h) :
                 ResumeCheckStatus(h, reply)
                     /\ AlreadyApplied(heap[suspended[h].request], reply)
                     => heap' = heap
       /\ \A i \in DOMAIN heap :
             heap[i].status \in Terminal => heap'[i].status # "pending"]_vars

\* the second of two interleaved handlers applied the completed document the
\* first had applied
C22_Witness ==
    /\ Called("check_status")
    /\ last.calls # << >>
    /\ Before.status = "completed"
    /\ last.reply = <<Before.response.id, "completed">>
    /\ heap = last.heap
    /\ Lookup(last.arg).response = Before.response

(* C23: under any interleaving of check_status handlers suspended at their  *)
(* engine call, with an engine whose answers for one operation may differ,  *)
(* a request that is completed or failed keeps its status in every step.    *)
C23_RaceMonotonic ==
    [][\A i \in DOMAIN heap :
          heap[i].status \in Terminal => heap'[i].status = heap[i].status]_vars

(* C24: the status of a request changes only in a check_status invocation   *)
(* for the id of that request: create and get_results change the status of  *)
(* no request, and nothing changes a status between invocations.            *)
C24_StatusOnlyInCheckStatus ==
    [][\A i \in DOMAIN heap :
          heap'[i].status # heap[i].status
              => /\ last'.tool = "check_status"
                 /\ last'.heap = heap
                 /\ last'.arg = heap[i].id]_vars

\* with two requests stored, a check_status call changed the status of one
C24_Witness ==
    /\ Called("check_status")
    /\ Len(heap) = 2
    /\ Before.status = "pending"
    /\ Lookup(last.arg).status \in Terminal

(* C25: check_status or get_results invoked for an id leaves every field of *)
(* every request whose id differs from it unchanged.                        *)
C25_OtherJobsUntouched ==
    last.tool \in {"check_status", "get_results"}
        => /\ DOMAIN heap = DOMAIN last.heap
           /\ researchRequests = last.researchRequests
           /\ \A i \in DOMAIN heap :
                  heap[i].id # last.arg => heap[i] = last.heap[i]

\* a call for one of two requests with different ids wrote to its own
C25_Witness ==
    /\ Called("check_status") \/ Called("get_results")
    /\ Lookup(last.arg) # Before
    /\ \E i \in DOMAIN heap : heap[i].id # last.arg

\* the fields of a request that only create writes
CreationFields == {"id", "query", "systemMessage", "model", "openaiResponseId",
                   "createdAt"}

\* the fields the handlers write after creation
WrittenFields == {"status", "response", "error"}

(* C26: after a request is created no operation changes its id, query,      *)
(* guidance, model, reference to the engine's operation or creation time:   *)
(* only the status, the cached document and the error are written.          *)
C26_CreationFieldsKept ==
    \A i \in DOMAIN last.heap :
        /\ DOMAIN last.heap[i] \subseteq DOMAIN heap[i]
        /\ DOMAIN heap[i] \ DOMAIN last.heap[i] \subseteq WrittenFields
        /\ \A f \in DOMAIN last.heap[i] \ WrittenFields : heap[i][f] = last.heap[i][f]
        /\ DOMAIN heap[i] \ WrittenFields \subseteq CreationFields
        /\ ExternalOperationRef(heap[i]) = ExternalOperationRef(last.heap[i])

\* a request was written to after a later moment than its creation
C26_Witness ==
    /\ Called("check_status") \/ Called("get_results")
    /\ Lookup(last.arg) # Before
    /\ now > Before.createdAt

\* the message check_status records on a request that failed
FixedFailureMessage == "Research request failed"

(* C27: the error of a request is written only by the check_status step     *)
(* that takes it from pending to failed, always with the same message, and  *)
(* is not written again; so a request has an error if and only if its       *)
(* status is failed.                                                        *)
C27_ErrorIffFailed ==
    /\ \A i \in DOMAIN heap :
          /\ Has(heap[i], "error") <=> heap[i].status = "failed"
          /\ Has(heap[i], "error") => heap[i].error = FixedFailureMessage
    /\ \A i \in DOMAIN last.heap :
          /\ Has(heap[i], "error") /\ ~Has(last.heap[i], "error")
                => /\ Called("check_status")
                   /\ last.researchRequests[last.arg] = i
                   /\ last.reply = <<ExternalOperationRef(heap[i]), "failed">>
                   /\ last.heap[i].status = "pending"
          /\ Has(last.heap[i], "error")
                => /\ heap[i] = last.heap[i]
                   /\ Called("check_status") /\ last.researchRequests[last.arg] = i
                         => last.calls = << >>

\* a check_status call took its request from pending to failed
C27_Witness ==
    /\ Called("check_status")
    /\ Before.status = "pending"
    /\ ~Has(Before, "error")
    /\ Lookup(last.arg).status = "failed"
    /\ Lookup(last.arg).error = FixedFailureMessage

\* the request holds a document with an output list
UsableCache(request) ==
    Has(request, "response") /\ Has(request.response, "output")

(* C28: get_results on a completed request whose cached document has an    *)
(* output list makes no engine call and leaves the request unchanged; a     *)
(* retrieval happens in get_results only when no such document is cached,   *)
(* and then at most once in the invocation.                                 *)
C28_CachedMeansNoRetrieval ==
    last.tool = "get_results"
        => /\ Len(last.calls) <= 1
           /\ \A k \in DOMAIN last.calls :
                  /\ Called("get_results")
                  /\ Before.status = "completed"
                  /\ ~UsableCache(Before)
                  /\ last.calls[k] = RetrieveCall(ExternalOperationRef(Before))
           /\ Called("get_results") /\ Before.status = "completed"
                 /\ UsableCache(Before)
                 => last.calls = << >> /\ NothingWritten

\* get_results answered from the document check_status had cached
C28_Witness ==
    /\ Called("get_results")
    /\ build = "dist"
    /\ Before.status = "completed"
    /\ UsableCache(Before)
    /\ Before.response.output = GoodOutput
    /\ Has(last.response, "results")
    /\ last.calls = << >>

(* C29: when the engine reports for a pending request a status other than   *)
(* completed or failed, check_status leaves the request entirely unchanged  *)
(* and reports status pending.                                              *)
C29_OtherStatusStaysPending ==
    Called("check_status") /\ Len(last.reply) = 2 /\ last.reply[2] \notin Terminal
        => /\ Before.status = "pending"
           /\ last.reply[2] \in OtherStatuses
           /\ NothingWritten
           /\ ~Has(last.response, "error")
           /\ last.response.request_id = Before.id
           /\ last.response.status = "pending"

\* the engine reported a cancelled operation, at a later time than creation
C29_Witness ==
    /\ Called("check_status")
    /\ last.reply = <<ExternalOperationRef(Before), "cancelled">>
    /\ now > Before.createdAt

====
